---- MODULE Spec2Model ----
(***************************************************************************)
(* A model of crates/oxc_transformer/src/typescript/mod.rs: the TypeScript *)
(* lowering pass of the transformer.                                       *)
(*                                                                         *)
(*   Spec      one file handed to one TypeScript instance: the driver      *)
(*             calls transform_statement on every top-level statement in   *)
(*             source order and then transform_program once.               *)
(*   SpecDecl  one declaration handed to transform_declaration (enum       *)
(*             lowering and import-equals lowering).                       *)
(***************************************************************************)
EXTENDS Integers, Sequences, FiniteSets, TLC

VARIABLES
    verbatim_module_syntax, \* TypeScript.verbatim_module_syntax
    export_name_set,        \* TypeScript.export_name_set
    symbols,                \* ctx: root-scope bindings, their flags and references
    body,                   \* program.body
    input,                  \* the statements as parsed, before any transform
    cursor,                 \* index of the next statement the traversal visits
    pc,                     \* position of the driver
    pre,                    \* program.body when transform_program was entered
    filtered,               \* program.body after pass 2, before the removals
    delete_indexes,         \* transform_program's local delete_indexes
    import_len,             \* transform_program's local import_len
    decl,                   \* the declaration handed to transform_declaration
    decl_in                 \* that declaration as it was before the call

vars == <<verbatim_module_syntax, export_name_set, symbols, body, input, cursor,
          pc, pre, filtered, delete_indexes, import_len, decl, decl_in>>

(***************************************************************************)
(* Bounds.                                                                 *)
(***************************************************************************)
\* Top-level statements of a file.
MaxBody == 2

\* Members of an enum.
MaxMembers == 2

\* Names of a qualified type name n1.n2...nk.
MaxQualified == 3

\* Names imported and exported by the files, and names of the enums and
\* namespaces they declare.
Names == {"a", "b"}

(***************************************************************************)
(* The tree: top-level statements.  Statement::ModuleDeclaration(X) is a   *)
(* record whose type is X; Statement::Declaration(d) wraps a declaration;  *)
(* every other statement passes through untouched.                         *)
(***************************************************************************)
NoDeclaration == [type |-> "None"]

Declaration(type, id_kind, name, declare) ==
    [type |-> type, id_kind |-> id_kind, name |-> name, declare |-> declare]

ImportSpecifier(import_kind, local) ==
    [type |-> "ImportSpecifier", import_kind |-> import_kind, local |-> local]

ImportDefaultSpecifier(local) ==
    [type |-> "ImportDefaultSpecifier", import_kind |-> "value", local |-> local]

ImportNamespaceSpecifier(local) ==
    [type |-> "ImportNamespaceSpecifier", import_kind |-> "value", local |-> local]

ExportSpecifier(export_kind, local, exported) ==
    [export_kind |-> export_kind, local |-> local, exported |-> exported]

\* specifiers: Option<Vec<..>>; has_specifiers is the Option's Some.
ImportDeclaration(import_kind, has_specifiers, specifiers) ==
    [type |-> "ImportDeclaration", import_kind |-> import_kind,
     has_specifiers |-> has_specifiers, specifiers |-> specifiers]

ExportNamedDeclaration(export_kind, declaration, specifiers, has_source) ==
    [type |-> "ExportNamedDeclaration", export_kind |-> export_kind,
     declaration |-> declaration, specifiers |-> specifiers,
     has_source |-> has_source]

\* `exported` of an export-default declaration is the name `default`.
ExportDefaultDeclaration ==
    [type |-> "ExportDefaultDeclaration", exported |-> "default"]

ExportAllDeclaration(export_kind, has_exported, exported) ==
    [type |-> "ExportAllDeclaration", export_kind |-> export_kind,
     has_exported |-> has_exported, exported |-> exported]

DeclarationStatement(d) == [type |-> "Declaration", declaration |-> d]

ExpressionStatement == [type |-> "ExpressionStatement"]

ModuleDeclarationTypes ==
    {"ImportDeclaration", "ExportNamedDeclaration", "ExportDefaultDeclaration",
     "ExportAllDeclaration"}

IsModuleDeclaration(stmt) == stmt.type \in ModuleDeclarationTypes

(***************************************************************************)
(* The statements the files are built from.                                *)
(***************************************************************************)
ImportPool ==
    { ImportDeclaration("value", FALSE, <<>>),                             \* import "m"
      ImportDeclaration("value", TRUE, <<>>),                              \* import {} from "m"
      ImportDeclaration("value", TRUE, <<ImportSpecifier("value", "a")>>), \* import { a }
      ImportDeclaration("value", TRUE, <<ImportSpecifier("type", "a")>>),  \* import { type a }
      ImportDeclaration("type", TRUE, <<ImportSpecifier("value", "a")>>),  \* import type { a }
      ImportDeclaration("type", TRUE, <<ImportDefaultSpecifier("a")>>),    \* import type a
      ImportDeclaration("value", TRUE, <<ImportDefaultSpecifier("a")>>),   \* import a
      ImportDeclaration("value", TRUE, <<ImportNamespaceSpecifier("a")>>), \* import * as a
      ImportDeclaration("value", TRUE,                                     \* import { a, b }
          <<ImportSpecifier("value", "a"), ImportSpecifier("value", "b")>>) }

ExportPool ==
    { ExportNamedDeclaration("value", NoDeclaration,                       \* export { a }
          <<ExportSpecifier("value", "a", "a")>>, FALSE),
      ExportNamedDeclaration("type", NoDeclaration,                        \* export type { a }
          <<ExportSpecifier("value", "a", "a")>>, FALSE),
      ExportNamedDeclaration("value", NoDeclaration,                       \* export { type a }
          <<ExportSpecifier("type", "a", "a")>>, FALSE),
      ExportNamedDeclaration("value", NoDeclaration,                       \* export { a as b }
          <<ExportSpecifier("value", "a", "b")>>, FALSE),
      ExportNamedDeclaration("value",                                      \* export const x = 1
          Declaration("VariableDeclaration", "Identifier", "x", FALSE), <<>>, FALSE),
      ExportNamedDeclaration("value",                                      \* export declare const x
          Declaration("VariableDeclaration", "Identifier", "x", TRUE), <<>>, FALSE),
      ExportNamedDeclaration("value",                                      \* export interface a {}
          Declaration("TSInterfaceDeclaration", "Identifier", "a", FALSE), <<>>, FALSE),
      ExportDefaultDeclaration,                                            \* export default 0
      ExportAllDeclaration("value", TRUE, "a") }                           \* export * as a from "m"

MergePool ==
    { ExportNamedDeclaration("value",                                      \* export enum a {}
          Declaration("TSEnumDeclaration", "Identifier", "a", FALSE), <<>>, FALSE),
      ExportNamedDeclaration("value",                                      \* export declare enum a {}
          Declaration("TSEnumDeclaration", "Identifier", "a", TRUE), <<>>, FALSE),
      ExportNamedDeclaration("value",                                      \* export namespace a {}
          Declaration("TSModuleDeclaration", "Identifier", "a", FALSE), <<>>, FALSE),
      ExportNamedDeclaration("value",                                      \* export enum b {}
          Declaration("TSEnumDeclaration", "Identifier", "b", FALSE), <<>>, FALSE),
      ExportNamedDeclaration("value",                                      \* export declare module "a" {}
          Declaration("TSModuleDeclaration", "StringLiteral", "a", TRUE), <<>>, FALSE),
      DeclarationStatement(                                                \* enum a {}
          Declaration("TSEnumDeclaration", "Identifier", "a", FALSE)) }

\* `let a = 0`: a statement that declares the block-scoped variable a.
LetStatement == DeclarationStatement(Declaration("VariableDeclaration", "Identifier", "a", FALSE))

\* What may follow the pool's statements in a file: nothing, a statement
\* with expressions in it, or `let a = 0`.
Tails == {<<>>, <<ExpressionStatement>>, <<LetStatement>>}

StatementPool == ImportPool \cup ExportPool \cup MergePool

RECURSIVE SeqsUpTo(_, _)
SeqsUpTo(S, n) ==
    IF n = 0 THEN {<<>>}
    ELSE LET shorter == SeqsUpTo(S, n - 1)
         IN  shorter \cup {Append(s, x) : s \in {t \in shorter : Len(t) = n - 1}, x \in S}

(***************************************************************************)
(* ctx: the scope tree and the symbol table, read-only.  `symbols` maps    *)
(* every name bound in the root scope to its flags and its resolved        *)
(* references, each "type" or "value".                                     *)
(***************************************************************************)
\* The statements whose expressions can use a name as a value, and those
\* that can mention a name as a type.
HoldsExpression(stmt) ==
    \/ stmt.type \in {"ExpressionStatement", "Declaration", "ExportDefaultDeclaration"}
    \/ /\ stmt.type = "ExportNamedDeclaration"
       /\ stmt.declaration.type # "None"
       /\ stmt.declaration.type # "TSInterfaceDeclaration"

HoldsType(stmt) == stmt.type \notin {"ImportDeclaration", "ExportAllDeclaration"}

\* The reference lists a binding of the file can have.
ReferenceLists(stmts) ==
    {<<>>}
    \cup (IF \E i \in DOMAIN stmts : HoldsType(stmts[i]) THEN {<<"type">>} ELSE {})
    \cup (IF \E i \in DOMAIN stmts : HoldsExpression(stmts[i])
          THEN {<<"type", "value">>} ELSE {})

\* The names the file's own statements declare as variables.
Redeclared(stmts) ==
    {stmts[i].declaration.name : i \in
        {j \in DOMAIN stmts : /\ stmts[j].type = "Declaration"
                              /\ stmts[j].declaration.type = "VariableDeclaration"}}

RECURSIVE ImportedNames(_)
ImportedNames(stmts) ==
    IF stmts = <<>> THEN {}
    ELSE LET stmt == Head(stmts)
         IN  (IF stmt.type = "ImportDeclaration"
              THEN {stmt.specifiers[i].local : i \in DOMAIN stmt.specifiers}
              ELSE {}) \cup ImportedNames(Tail(stmts))

\* The table the semantic analysis hands over for a file whose imports bind
\* `imported`, whose own variables are `redeclared`, with references `refs`.
SymbolTable(imported, redeclared, refs) ==
    [n \in imported \cup redeclared |->
        [flags |-> (IF n \in imported THEN {"ImportBinding"} ELSE {})
                   \cup (IF n \in redeclared THEN {"BlockScopedVariable"} ELSE {}),
         references |-> refs[n]]]

is_import_binding_only(name) ==
    /\ name \in DOMAIN symbols
    /\ "ImportBinding" \in symbols[name].flags
    /\ symbols[name].flags \cap {"FunctionScopedVariable", "BlockScopedVariable"} = {}

has_value_references(name) ==
    /\ name \in DOMAIN symbols
    /\ \E i \in DOMAIN symbols[name].references : symbols[name].references[i] # "type"

(***************************************************************************)
(* transform_statement: merged-export deduplication.                       *)
(***************************************************************************)
\* The early returns of transform_statement: the statement is an export-named
\* declaration with a declaration, no source and value kind, and the
\* declaration is an enum or a namespace with an identifier id.
is_merge_candidate(stmt) ==
    /\ stmt.type = "ExportNamedDeclaration"
    /\ stmt.declaration # NoDeclaration
    /\ ~stmt.has_source
    /\ stmt.export_kind = "value"
    /\ \/ stmt.declaration.type = "TSEnumDeclaration"
       \/ /\ stmt.declaration.type = "TSModuleDeclaration"
          /\ stmt.declaration.id_kind = "Identifier"

\* Mutant: only a repeated enum loses its export; a namespace merging with
\* an earlier declaration keeps it.
transform_statement_enum_only(stmt, seen) ==
    IF ~is_merge_candidate(stmt) THEN stmt
    ELSE IF stmt.declaration.name \notin seen THEN stmt
    ELSE IF stmt.declaration.type # "TSEnumDeclaration" THEN stmt
    ELSE DeclarationStatement(stmt.declaration)

\* The statement transform_statement leaves in place of `stmt`, given the
\* names already exported.
transform_statement(stmt, seen) ==
    IF ~is_merge_candidate(stmt) THEN stmt
    ELSE IF stmt.declaration.name \notin seen THEN stmt
    ELSE DeclarationStatement(stmt.declaration)

\* export_name_set after the call (FxHashSet::insert).
export_name_set_after(stmt, seen) ==
    IF is_merge_candidate(stmt) THEN seen \cup {stmt.declaration.name} ELSE seen

(***************************************************************************)
(* transform_program, pass 1: collect export names.                        *)
(***************************************************************************)
NoNames == [export_names |-> {}, export_type_names |-> {}]

insert_export(acc, name, is_value) ==
    IF ~is_import_binding_only(name) THEN acc
    ELSE IF is_value
         THEN [acc EXCEPT !.export_names = @ \cup {name}]
         ELSE [acc EXCEPT !.export_type_names = @ \cup {name}]

RECURSIVE collect_specifiers(_, _, _)
collect_specifiers(acc, stmt, specifiers) ==
    IF specifiers = <<>> THEN acc
    ELSE LET specifier == Head(specifiers)
             is_value  == stmt.export_kind = "value" /\ specifier.export_kind = "value"
         IN  collect_specifiers(insert_export(acc, specifier.exported, is_value),
                                stmt, Tail(specifiers))

collect_statement(acc, stmt) ==
    CASE stmt.type = "ExportNamedDeclaration" ->
            collect_specifiers(acc, stmt, stmt.specifiers)
      [] stmt.type = "ExportDefaultDeclaration" ->
            insert_export(acc, stmt.exported, TRUE)
      [] stmt.type = "ExportAllDeclaration" ->
            IF stmt.has_exported
            THEN insert_export(acc, stmt.exported, stmt.export_kind = "value")
            ELSE acc
      [] OTHER -> acc

RECURSIVE collect_export_names(_, _)
collect_export_names(acc, stmts) ==
    IF stmts = <<>> THEN acc
    ELSE collect_export_names(collect_statement(acc, Head(stmts)), Tail(stmts))

(***************************************************************************)
(* transform_program, pass 2: filter the specifiers and mark deletions.    *)
(***************************************************************************)
\* The closure of decl.specifiers.retain in the export-named arm.
retain_export_specifier(specifier, import_type_names) ==
    ~(specifier.export_kind = "type" \/ specifier.exported \in import_type_names)

\* d.modifiers() contains Declare, or d is an interface or a type alias.
is_ambient_or_type(d) ==
    \/ d.declare
    \/ d.type \in {"TSInterfaceDeclaration", "TSTypeAliasDeclaration"}

\* The condition under which the export-named arm pushes the index.
delete_export(stmt) ==
    \/ stmt.export_kind = "type"
    \/ verbatim_module_syntax
    \/ /\ \/ stmt.declaration = NoDeclaration
          \/ is_ambient_or_type(stmt.declaration)
       /\ stmt.specifiers = <<>>

\* Mutant: the closure forgets the value re-exports (export_names).
retain_import_specifier_no_exports(s, is_type, names) ==
    CASE s.type = "ImportSpecifier" ->
            IF is_type \/ s.import_kind = "type" THEN FALSE
            ELSE IF s.local \in names.export_type_names THEN FALSE
            ELSE IF verbatim_module_syntax THEN TRUE
            ELSE has_value_references(s.local)
      [] s.type \in {"ImportDefaultSpecifier", "ImportNamespaceSpecifier"}
            /\ ~verbatim_module_syntax ->
            has_value_references(s.local)
      [] OTHER -> TRUE

\* The closure of specifiers.retain in the import arm: whether it returns true.
retain_import_specifier(s, is_type, names) ==
    CASE s.type = "ImportSpecifier" ->
            IF is_type \/ s.import_kind = "type" THEN FALSE
            ELSE IF s.local \in names.export_type_names THEN FALSE
            ELSE IF verbatim_module_syntax THEN TRUE
            ELSE has_value_references(s.local) \/ s.local \in names.export_names
      [] s.type \in {"ImportDefaultSpecifier", "ImportNamespaceSpecifier"}
            /\ ~verbatim_module_syntax ->
            has_value_references(s.local) \/ s.local \in names.export_names
      [] OTHER -> TRUE

\* The same closure: whether it inserts the local name into import_type_names.
records_type_import(s, is_type) ==
    CASE s.type = "ImportSpecifier" -> is_type \/ s.import_kind = "type"
      [] s.type \in {"ImportDefaultSpecifier", "ImportNamespaceSpecifier"}
            /\ ~verbatim_module_syntax -> is_type
      [] OTHER -> FALSE

\* Mutant: the import arm forgets that the list was empty to begin with.
delete_import_any_empty(before, after) ==
    \/ before.import_kind = "type"
    \/ after.has_specifiers /\ after.specifiers = <<>>

\* The condition under which the import arm pushes the index.
delete_import(before, after) ==
    LET is_specifiers_empty == before.has_specifiers /\ before.specifiers = <<>>
    IN  \/ before.import_kind = "type"
        \/ /\ ~is_specifiers_empty
           /\ after.has_specifiers /\ after.specifiers = <<>>

\* One iteration of the loop over program.body.
visit_statement(acc, index, stmt, names) ==
    IF ~IsModuleDeclaration(stmt)
    THEN [acc EXCEPT !.body = Append(@, stmt)]
    ELSE LET counted == [acc EXCEPT !.import_len = @ + 1]
         IN  CASE stmt.type = "ExportNamedDeclaration" ->
                    LET kept  == SelectSeq(stmt.specifiers,
                                    LAMBDA s : retain_export_specifier(s, acc.import_type_names))
                        after == [stmt EXCEPT !.specifiers = kept]
                    IN  [counted EXCEPT
                            !.body = Append(@, after),
                            !.delete_indexes =
                                IF delete_export(after) THEN Append(@, index) ELSE @]
               [] stmt.type = "ImportDeclaration" ->
                    LET is_type == stmt.import_kind = "type"
                        kept    == SelectSeq(stmt.specifiers,
                                      LAMBDA s : retain_import_specifier(s, is_type, names))
                        typed   == {stmt.specifiers[i].local : i \in
                                      {j \in DOMAIN stmt.specifiers :
                                          records_type_import(stmt.specifiers[j], is_type)}}
                        after   == [stmt EXCEPT !.specifiers = kept]
                    IN  [counted EXCEPT
                            !.body = Append(@, after),
                            !.import_type_names = @ \cup typed,
                            !.delete_indexes =
                                IF delete_import(stmt, after) THEN Append(@, index) ELSE @]
               [] OTHER -> [counted EXCEPT !.body = Append(@, stmt)]

RECURSIVE filter_statements(_, _, _, _)
filter_statements(acc, index, stmts, names) ==
    IF index > Len(stmts) THEN acc
    ELSE filter_statements(visit_statement(acc, index, stmts[index], names),
                           index + 1, stmts, names)

(***************************************************************************)
(* transform_program, cleanup: the removals and the explicit ESM marker.   *)
(***************************************************************************)
\* program.body.remove(index) for every index of delete_indexes, highest first.
RECURSIVE remove_indexes(_, _)
remove_indexes(stmts, indexes) ==
    IF indexes = <<>> THEN stmts
    ELSE LET index == indexes[Len(indexes)]
         IN  remove_indexes(
                 SubSeq(stmts, 1, index - 1) \o SubSeq(stmts, index + 1, Len(stmts)),
                 SubSeq(indexes, 1, Len(indexes) - 1))

\* ast.export_named_declaration(SPAN, None, new_vec(), None, Value)
empty_export == ExportNamedDeclaration("value", NoDeclaration, <<>>, FALSE)

\* Mutant: the marker is added to a file that never held a module declaration.
needs_empty_export_unguarded(len, deleted) == len = deleted

needs_empty_export(len, deleted) == len > 0 /\ len = deleted

(***************************************************************************)
(* The driver of one file.                                                 *)
(***************************************************************************)
Init ==
    /\ verbatim_module_syntax \in BOOLEAN
    /\ export_name_set = {}
    /\ \E stmts \in SeqsUpTo(StatementPool, MaxBody), tail \in Tails :
          body = stmts \o tail
    /\ input = body
    /\ \E refs \in [ImportedNames(body) \cup Redeclared(body) -> ReferenceLists(body)] :
          symbols = SymbolTable(ImportedNames(body), Redeclared(body), refs)
    /\ cursor = 1
    /\ pc = "traverse"
    /\ pre = <<>>
    /\ filtered = <<>>
    /\ delete_indexes = <<>>
    /\ import_len = 0
    /\ decl = NoDeclaration
    /\ decl_in = NoDeclaration

\* The traversal visits the next top-level statement.
TransformStatement ==
    /\ pc = "traverse"
    /\ cursor <= Len(body)
    /\ body' = [body EXCEPT ![cursor] = transform_statement(body[cursor], export_name_set)]
    /\ export_name_set' = export_name_set_after(body[cursor], export_name_set)
    /\ cursor' = cursor + 1
    /\ UNCHANGED <<verbatim_module_syntax, symbols, input, pc, pre, filtered,
                   delete_indexes, import_len, decl, decl_in>>

\* The traversal is over: the whole-program pass runs once.
TransformProgram ==
    /\ pc = "traverse"
    /\ cursor > Len(body)
    /\ LET names  == collect_export_names(NoNames, body)
           start  == [body |-> <<>>, import_type_names |-> {},
                      delete_indexes |-> <<>>, import_len |-> 0]
           result == filter_statements(start, 1, body, names)
           kept   == remove_indexes(result.body, result.delete_indexes)
       IN  /\ pre' = body
           /\ filtered' = result.body
           /\ delete_indexes' = result.delete_indexes
           /\ import_len' = result.import_len
           /\ body' = IF needs_empty_export(result.import_len, Len(result.delete_indexes))
                      THEN Append(kept, empty_export)
                      ELSE kept
    /\ pc' = "done"
    /\ UNCHANGED <<verbatim_module_syntax, export_name_set, symbols, input, cursor,
                   decl, decl_in>>

Next == TransformStatement \/ TransformProgram

Spec == Init /\ [][Next]_vars

(***************************************************************************)
(* The tree: expressions and the statements of a function body, named      *)
(* after the AstBuilder methods that make them.                            *)
(***************************************************************************)
NoExpression == [type |-> "None"]

literal_number_expression(value) == [type |-> "NumberLiteral", number |-> value]

literal_string_expression(value) == [type |-> "StringLiteral", string |-> value]

identifier_reference_expression(name) == [type |-> "IdentifierReference", name |-> name]

binary_expression(left, operator, right) ==
    [type |-> "BinaryExpression", left |-> left, operator |-> operator, right |-> right]

logical_expression(left, operator, right) ==
    [type |-> "LogicalExpression", left |-> left, operator |-> operator, right |-> right]

computed_member_expression(object, expression) ==
    [type |-> "ComputedMemberExpression", object |-> object, expression |-> expression]

static_member_expression(object, property) ==
    [type |-> "StaticMemberExpression", object |-> object, property |-> property]

assignment_expression(left, right) ==
    [type |-> "AssignmentExpression", operator |-> "=", left |-> left, right |-> right]

call_expression(callee, arguments) ==
    [type |-> "CallExpression", callee |-> callee, arguments |-> arguments]

arrow_expression(params, statements) ==
    [type |-> "ArrowExpression", params |-> params, statements |-> statements]

object_expression == [type |-> "ObjectExpression"]

variable_declarator(id, init) == [id |-> id, init |-> init]

variable_declaration(kind, declarations) ==
    [type |-> "VariableDeclaration", kind |-> kind, declarations |-> declarations]

expression_statement(expression) ==
    [type |-> "ExpressionStatement", expression |-> expression]

return_statement(argument) == [type |-> "ReturnStatement", argument |-> argument]

\* The TypeScript-only declarations transform_declaration rewrites.
TSEnumMember(id_kind, name, initializer) ==
    [id_kind |-> id_kind, name |-> name, initializer |-> initializer]

TSEnumDeclaration(name, declare, members) ==
    [type |-> "TSEnumDeclaration", name |-> name, declare |-> declare,
     members |-> members]

QualifiedName(left, right) == [type |-> "QualifiedName", left |-> left, right |-> right]

ExternalModuleReference(expression) ==
    [type |-> "ExternalModuleReference", expression |-> expression]

TSImportEqualsDeclaration(import_kind, name, module_reference) ==
    [type |-> "TSImportEqualsDeclaration", import_kind |-> import_kind,
     name |-> name, module_reference |-> module_reference]

(***************************************************************************)
(* Enum lowering.                                                          *)
(***************************************************************************)
\* Member names that are syntactically valid identifiers (utils).
IdentifierNames == {"A", "B", "E"}

is_valid_identifier(name) == name \in IdentifierNames

\* Mutant: is_str is taken after the initializer was replaced by the
\* reference to the member's const.
lower_member_late_is_str(member, enum_name, default_init) ==
    LET member_name == member.name
        init        == IF member.initializer # NoExpression
                       THEN member.initializer ELSE default_init
        valid       == is_valid_identifier(member_name)
        self_ref    == IF valid
                       THEN identifier_reference_expression(member_name)
                       ELSE computed_member_expression(
                                identifier_reference_expression(enum_name),
                                literal_string_expression(member_name))
        const_stmt  == variable_declaration("const",
                           <<variable_declarator(member_name, init)>>)
        value       == IF valid THEN identifier_reference_expression(member_name)
                       ELSE init
        is_str      == value.type = "StringLiteral"
        forward     == assignment_expression(
                           computed_member_expression(
                               identifier_reference_expression(enum_name),
                               literal_string_expression(member_name)),
                           value)
        expr        == IF is_str THEN forward
                       ELSE assignment_expression(
                                computed_member_expression(
                                    identifier_reference_expression(enum_name), forward),
                                literal_string_expression(member_name))
    IN  [statements   |-> (IF valid THEN <<const_stmt>> ELSE <<>>)
                          \o <<expression_statement(expr)>>,
         default_init |-> binary_expression(literal_number_expression(1), "+", self_ref)]

\* One iteration of the loop of transform_ts_enum_members: the statements
\* pushed for `member` and the next default_init.
lower_member(member, enum_name, default_init) ==
    LET member_name == member.name
        init        == IF member.initializer # NoExpression
                       THEN member.initializer ELSE default_init
        is_str      == init.type = "StringLiteral"
        valid       == is_valid_identifier(member_name)
        self_ref    == IF valid
                       THEN identifier_reference_expression(member_name)
                       ELSE computed_member_expression(
                                identifier_reference_expression(enum_name),
                                literal_string_expression(member_name))
        const_stmt  == variable_declaration("const",
                           <<variable_declarator(member_name, init)>>)
        value       == IF valid THEN identifier_reference_expression(member_name)
                       ELSE init
        forward     == assignment_expression(
                           computed_member_expression(
                               identifier_reference_expression(enum_name),
                               literal_string_expression(member_name)),
                           value)
        expr        == IF is_str THEN forward
                       ELSE assignment_expression(
                                computed_member_expression(
                                    identifier_reference_expression(enum_name), forward),
                                literal_string_expression(member_name))
    IN  [statements   |-> (IF valid THEN <<const_stmt>> ELSE <<>>)
                          \o <<expression_statement(expr)>>,
         default_init |-> binary_expression(literal_number_expression(1), "+", self_ref)]

RECURSIVE lower_members(_, _, _)
lower_members(members, enum_name, default_init) ==
    IF members = <<>> THEN <<>>
    ELSE LET step == lower_member(Head(members), enum_name, default_init)
         IN  step.statements \o lower_members(Tail(members), enum_name, step.default_init)

transform_ts_enum_members(members, enum_name) ==
    lower_members(members, enum_name, literal_number_expression(0))
    \o <<return_statement(identifier_reference_expression(enum_name))>>

\* Mutant: the declare modifier is not looked at.
transform_ts_enum_ignoring_declare(d) ==
    LET statements == lower_members(d.members, d.name, literal_number_expression(0))
        callee     == arrow_expression(<<d.name>>, statements)
        argument   == logical_expression(identifier_reference_expression(d.name),
                                         "||", object_expression)
    IN  variable_declaration("var",
            <<variable_declarator(d.name, call_expression(callee, <<argument>>))>>)

\* None for an ambient enum, else
\* Some(var Name = ((Name) => { ... })(Name || {})).
transform_ts_enum(d) ==
    IF d.declare THEN NoDeclaration ELSE
    LET statements == transform_ts_enum_members(d.members, d.name)
        callee     == arrow_expression(<<d.name>>, statements)
        argument   == logical_expression(identifier_reference_expression(d.name),
                                         "||", object_expression)
    IN  variable_declaration("var",
            <<variable_declarator(d.name, call_expression(callee, <<argument>>))>>)

(***************************************************************************)
(* Import-equals lowering.                                                 *)
(***************************************************************************)
\* Mutant: the left side of a qualified name is not lowered recursively; only
\* its last name is kept (A.C.D becomes C.D).
transform_ts_type_name_shallow(type_name) ==
    IF type_name.type = "IdentifierReference"
    THEN identifier_reference_expression(type_name.name)
    ELSE static_member_expression(
             identifier_reference_expression(
                 IF type_name.left.type = "IdentifierReference"
                 THEN type_name.left.name ELSE type_name.left.right),
             type_name.right)

RECURSIVE transform_ts_type_name(_)
transform_ts_type_name(type_name) ==
    IF type_name.type = "IdentifierReference"
    THEN identifier_reference_expression(type_name.name)
    ELSE static_member_expression(transform_ts_type_name(type_name.left),
                                  type_name.right)

transform_ts_import_equals(d) ==
    LET init == IF d.module_reference.type = "ExternalModuleReference"
                THEN call_expression(identifier_reference_expression("require"),
                         <<literal_string_expression(d.module_reference.expression)>>)
                ELSE transform_ts_type_name(d.module_reference)
    IN  variable_declaration("var", <<variable_declarator(d.name, init)>>)

(***************************************************************************)
(* transform_declaration.                                                  *)
(***************************************************************************)
transform_declaration(d) ==
    CASE d.type = "TSImportEqualsDeclaration" /\ d.import_kind = "value" ->
            transform_ts_import_equals(d)
      [] d.type = "TSEnumDeclaration" ->
            LET expr == transform_ts_enum(d)
            IN  IF expr # NoDeclaration THEN expr ELSE d
      [] OTHER -> d

(***************************************************************************)
(* The declarations handed to transform_declaration.                       *)
(***************************************************************************)
\* The value TypeScript gives each member of an enum: its initializer
\* evaluated with the earlier members in scope, else one more than the
\* member before it, else 0.
Number(n) == [t |-> "number", n |-> n]

String(str) == [t |-> "string", s |-> str]

ValueOfMember(members, values, name) ==
    LET i == CHOOSE j \in DOMAIN values : members[j].name = name
    IN  values[i]

MemberValue(members, values, i) ==
    LET init == members[i].initializer
    IN  CASE init = NoExpression ->
                IF i = 1 THEN Number(0) ELSE Number(values[i - 1].n + 1)
          [] init.type = "NumberLiteral" -> Number(init.number)
          [] init.type = "StringLiteral" -> String(init.string)
          [] init.type = "IdentifierReference" ->
                ValueOfMember(members, values, init.name)
          [] init.type = "BinaryExpression" ->
                Number(ValueOfMember(members, values, init.left.name).n
                       + init.right.number)

RECURSIVE MemberValues(_, _)
MemberValues(members, n) ==
    IF n = 0 THEN <<>>
    ELSE LET values == MemberValues(members, n - 1)
         IN  Append(values, MemberValue(members, values, n))

EnumName == "E"

\* The keys a member can have: an identifier or a string literal.
MemberKeys ==
    { <<"Identifier", "A">>, <<"Identifier", "B">>, <<"Identifier", "E">>,
      <<"StringLiteral", "A">>, <<"StringLiteral", "a-b">> }

\* The initializers the member after `members` can have in a program the
\* type checker accepts: none (after nothing or after a number), a number, a
\* string, an earlier member by its bare name, an earlier numeric member
\* plus one.
Initializers(members) ==
    LET values   == MemberValues(members, Len(members))
        earlier  == {i \in DOMAIN members : members[i].name \in IdentifierNames}
        numeric  == {i \in earlier : values[i].t = "number"}
    IN  (IF members = <<>> \/ values[Len(values)].t = "number"
         THEN {NoExpression} ELSE {})
        \cup {literal_number_expression(1), literal_string_expression("x")}
        \cup {identifier_reference_expression(members[i].name) : i \in earlier}
        \cup {binary_expression(identifier_reference_expression(members[i].name),
                                "+", literal_number_expression(1)) : i \in numeric}

RECURSIVE MemberLists(_)
MemberLists(n) ==
    IF n = 0 THEN {<<>>}
    ELSE LET shorter == MemberLists(n - 1)
         IN  shorter \cup
             UNION {{Append(ms, TSEnumMember(key[1], key[2], init)) :
                        key \in {k \in MemberKeys :
                                    \A i \in DOMAIN ms : ms[i].name # k[2]},
                        init \in Initializers(ms)} :
                    ms \in {m \in shorter : Len(m) = n - 1}}

EnumPool ==
    {TSEnumDeclaration(EnumName, declare, members) :
        declare \in BOOLEAN, members \in MemberLists(MaxMembers)}

\* The parser's tree of the qualified name n1.n2...nk.
RECURSIVE TypeName(_)
TypeName(names) ==
    IF Len(names) = 1 THEN identifier_reference_expression(names[1])
    ELSE QualifiedName(TypeName(SubSeq(names, 1, Len(names) - 1)), names[Len(names)])

QualifiedNames == SeqsUpTo({"A", "C", "D"}, MaxQualified) \ {<<>>}

ImportEqualsPool ==
    {TSImportEqualsDeclaration(kind, "B", reference) :
        kind \in {"value", "type"},
        reference \in {TypeName(names) : names \in QualifiedNames}
                      \cup {ExternalModuleReference("pkg")}}

OtherDeclarations ==
    { variable_declaration("var",
          <<variable_declarator("B", identifier_reference_expression("A"))>>),
      Declaration("TSInterfaceDeclaration", "Identifier", "A", FALSE) }

InitDecl ==
    /\ verbatim_module_syntax = FALSE
    /\ export_name_set = {}
    /\ symbols = SymbolTable({}, {}, <<>>)
    /\ body = <<>>
    /\ input = <<>>
    /\ cursor = 1
    /\ pc = "declaration"
    /\ pre = <<>>
    /\ filtered = <<>>
    /\ delete_indexes = <<>>
    /\ import_len = 0
    /\ decl \in EnumPool \cup ImportEqualsPool \cup OtherDeclarations
    /\ decl_in = decl

\* The traversal hands the declaration to transform_declaration.
TransformDeclaration ==
    /\ pc = "declaration"
    /\ decl' = transform_declaration(decl)
    /\ pc' = "lowered"
    /\ UNCHANGED <<verbatim_module_syntax, export_name_set, symbols, body, input,
                   cursor, pre, filtered, delete_indexes, import_len, decl_in>>

NextDecl == TransformDeclaration

SpecDecl == InitDecl /\ [][NextDecl]_vars

(***************************************************************************)
(* Vocabulary of the properties of transform_program.                      *)
(***************************************************************************)
Range(seq) == {seq[i] : i \in DOMAIN seq}

\* The indexes transform_program marked for deletion.
Marked == Range(delete_indexes)

ModuleIndexes == {i \in DOMAIN pre : IsModuleDeclaration(pre[i])}

\* The statements of `stmts` at the indexes of `keep`, in order.
RECURSIVE AtIndexes(_, _, _)
AtIndexes(stmts, keep, i) ==
    IF i > Len(stmts) THEN <<>>
    ELSE (IF i \in keep THEN <<stmts[i]>> ELSE <<>>) \o AtIndexes(stmts, keep, i + 1)

Survivors == AtIndexes(filtered, DOMAIN filtered \ Marked, 1)

\* An export-named statement with no declaration, no specifiers, no source
\* and value kind.
IsEmptyExport(stmt) ==
    /\ stmt.type = "ExportNamedDeclaration"
    /\ stmt.export_kind = "value"
    /\ stmt.declaration.type = "None"
    /\ stmt.specifiers = <<>>
    /\ ~stmt.has_source

\* Section 3: the root-scope symbol of the name exists, is an import binding
\* and is not redeclared as a variable.
ImportBindingOnly(n) ==
    /\ n \in DOMAIN symbols
    /\ "ImportBinding" \in symbols[n].flags
    /\ "FunctionScopedVariable" \notin symbols[n].flags
    /\ "BlockScopedVariable" \notin symbols[n].flags

HasValueReference(n) ==
    n \in DOMAIN symbols /\ "value" \in Range(symbols[n].references)

\* Section 4.4, pass 1: the two name sets of the file transform_program was
\* given.
ValueExportNames ==
    {n \in Names \cup {"default"} : ImportBindingOnly(n) /\
        \E i \in DOMAIN pre :
            \/ /\ pre[i].type = "ExportNamedDeclaration"
               /\ pre[i].export_kind = "value"
               /\ \E k \in DOMAIN pre[i].specifiers :
                     /\ pre[i].specifiers[k].exported = n
                     /\ pre[i].specifiers[k].export_kind = "value"
            \/ pre[i].type = "ExportDefaultDeclaration" /\ pre[i].exported = n
            \/ /\ pre[i].type = "ExportAllDeclaration"
               /\ pre[i].has_exported /\ pre[i].exported = n
               /\ pre[i].export_kind = "value"}

TypeExportNames ==
    {n \in Names \cup {"default"} : ImportBindingOnly(n) /\
        \E i \in DOMAIN pre :
            \/ /\ pre[i].type = "ExportNamedDeclaration"
               /\ \E k \in DOMAIN pre[i].specifiers :
                     /\ pre[i].specifiers[k].exported = n
                     /\ \/ pre[i].export_kind = "type"
                        \/ pre[i].specifiers[k].export_kind = "type"
            \/ /\ pre[i].type = "ExportAllDeclaration"
               /\ pre[i].has_exported /\ pre[i].exported = n
               /\ pre[i].export_kind = "type"}

(***************************************************************************)
(* C1.  transform_program appends exactly one empty named export           *)
(* (`export {}`: no declaration, no specifiers, no source, value kind) at  *)
(* the end of the body if and only if the body it was given held at least  *)
(* one module declaration and every module declaration was marked for      *)
(* deletion; otherwise the output is just the surviving statements.  A     *)
(* file of import/export statements that are all elided ends as the one    *)
(* statement `export {}`.                                                  *)
(***************************************************************************)
C1_EmptyExportIffAllDeleted ==
    pc = "done" =>
        LET all_deleted == ModuleIndexes # {} /\ ModuleIndexes \subseteq Marked
        IN  /\ all_deleted =>
                /\ Len(body) = Len(Survivors) + 1
                /\ SubSeq(body, 1, Len(Survivors)) = Survivors
                /\ IsEmptyExport(body[Len(body)])
            /\ ~all_deleted => body = Survivors
            /\ (all_deleted /\ ModuleIndexes = DOMAIN pre) =>
                (Len(body) = 1 /\ IsEmptyExport(body[1]))

C1_Witness ==
    /\ pc = "done"
    /\ ModuleIndexes = {1, 2}
    /\ Marked = {1, 2}
    /\ pre[1].type = "ImportDeclaration"
    /\ pre[2].type = "ExportNamedDeclaration"
    /\ Len(body) = 1
    /\ IsEmptyExport(body[1])

(***************************************************************************)
(* C2.  An import declaration is removed if and only if its import kind is *)
(* type-only, or its specifier list was non-empty before filtering and is  *)
(* empty after it.  So `import type` is always removed, and an import with *)
(* no specifier list or an originally empty one is removed only when it is *)
(* type-only.                                                              *)
(***************************************************************************)
C2_ImportRemovedIff ==
    pc = "done" =>
        \A i \in DOMAIN pre :
            pre[i].type = "ImportDeclaration" =>
                /\ (i \in Marked) <=>
                      \/ pre[i].import_kind = "type"
                      \/ /\ pre[i].has_specifiers
                         /\ pre[i].specifiers # <<>>
                         /\ filtered[i].specifiers = <<>>
                /\ Len(body) >= Cardinality(DOMAIN pre \ Marked)
                /\ (i \notin Marked) =>
                      body[Cardinality({j \in 1..i : j \notin Marked})] = filtered[i]

C2_Witness ==
    /\ pc = "done"
    /\ \E i \in DOMAIN pre :
          /\ pre[i].type = "ImportDeclaration"
          /\ pre[i].import_kind = "value"
          /\ Len(pre[i].specifiers) = 2
          /\ filtered[i].specifiers = <<>>
          /\ i \in Marked
    /\ \E i \in DOMAIN pre :
          /\ pre[i].type = "ImportDeclaration"
          /\ pre[i].has_specifiers
          /\ pre[i].specifiers = <<>>
          /\ i \notin Marked

(***************************************************************************)
(* C3.  With verbatim-module-syntax disabled, a specifier of a value-kind  *)
(* import declaration is dropped if it is itself type-kind, else dropped   *)
(* if its local name is in type-export-names, else kept exactly when its   *)
(* local name has a value-tagged reference or is in value-export-names.    *)
(***************************************************************************)
KeptAsClaimed(s) ==
    /\ s.import_kind # "type"
    /\ s.local \notin TypeExportNames
    /\ HasValueReference(s.local) \/ s.local \in ValueExportNames

\* As stated, for every form of specifier: named, default and namespace.
C3_Original ==
    (pc = "done" /\ ~verbatim_module_syntax) =>
        \A i \in DOMAIN pre :
            (pre[i].type = "ImportDeclaration" /\ pre[i].import_kind = "value") =>
                filtered[i].specifiers = SelectSeq(pre[i].specifiers, KeptAsClaimed)

\* What the code does: type-export-names decides named specifiers only.
KeptByForm(s) ==
    IF s.type = "ImportSpecifier"
    THEN KeptAsClaimed(s)
    ELSE HasValueReference(s.local) \/ s.local \in ValueExportNames

\* As amended: the rule holds for named specifiers; a default or namespace
\* specifier is kept exactly when its local name has a value-tagged reference
\* or is in value-export-names, whether or not it is in type-export-names.
C3_SpecifierKeptByForm ==
    (pc = "done" /\ ~verbatim_module_syntax) =>
        \A i \in DOMAIN pre :
            (pre[i].type = "ImportDeclaration" /\ pre[i].import_kind = "value") =>
                filtered[i].specifiers = SelectSeq(pre[i].specifiers, KeptByForm)

\* `import a from "m"; export type { a }` with a value use of a: a is kept.
C3_Witness ==
    /\ pc = "done"
    /\ ~verbatim_module_syntax
    /\ \E i \in DOMAIN pre :
          /\ pre[i].type = "ImportDeclaration"
          /\ pre[i].import_kind = "value"
          /\ Len(pre[i].specifiers) = 1
          /\ pre[i].specifiers[1].type = "ImportDefaultSpecifier"
          /\ pre[i].specifiers[1].local \in TypeExportNames
          /\ HasValueReference(pre[i].specifiers[1].local)
          /\ filtered[i].specifiers = pre[i].specifiers
          /\ i \notin Marked

(***************************************************************************)
(* C4.  With verbatim-module-syntax enabled every syntactically value-kind *)
(* specifier survives transform_program: the value-kind import specifiers  *)
(* of a value-kind import declaration, and the value-kind export           *)
(* specifiers and the inline exported value declaration of a value-kind    *)
(* export-named declaration, are still in the output.                      *)
(***************************************************************************)
IsValueDeclaration(d) ==
    /\ d.type # "None"
    /\ ~d.declare
    /\ d.type \notin {"TSInterfaceDeclaration", "TSTypeAliasDeclaration"}

C4_VerbatimPreservesValueSpecifiers ==
    (pc = "done" /\ verbatim_module_syntax) =>
        \A i \in DOMAIN pre :
            /\ (pre[i].type = "ImportDeclaration" /\ pre[i].import_kind = "value") =>
                  \A k \in DOMAIN pre[i].specifiers :
                      pre[i].specifiers[k].import_kind = "value" =>
                          /\ i \notin Marked
                          /\ pre[i].specifiers[k] \in Range(filtered[i].specifiers)
            /\ (pre[i].type = "ExportNamedDeclaration" /\ pre[i].export_kind = "value") =>
                  /\ \A k \in DOMAIN pre[i].specifiers :
                        pre[i].specifiers[k].export_kind = "value" =>
                            /\ i \notin Marked
                            /\ pre[i].specifiers[k] \in Range(filtered[i].specifiers)
                  /\ IsValueDeclaration(pre[i].declaration) =>
                        /\ i \notin Marked
                        /\ filtered[i].declaration = pre[i].declaration

(***************************************************************************)
(* C5.  While the traversal hands the statements to transform_statement in *)
(* source order: for each name, the first value-kind, source-less export   *)
(* of an enum or identifier-named namespace of that name stays exported    *)
(* and the name is in export_name_set; every later one (enum or namespace  *)
(* alike) is replaced by its bare declaration; every other statement is    *)
(* unchanged; export_name_set holds exactly the names met so far.          *)
(***************************************************************************)
IsMergeable(stmt) ==
    /\ stmt.type = "ExportNamedDeclaration"
    /\ stmt.export_kind = "value"
    /\ ~stmt.has_source
    /\ stmt.declaration.type \in {"TSEnumDeclaration", "TSModuleDeclaration"}
    /\ stmt.declaration.id_kind = "Identifier"

IsLaterMerge(i) ==
    /\ IsMergeable(input[i])
    /\ \E j \in 1..(i - 1) :
          IsMergeable(input[j]) /\ input[j].declaration.name = input[i].declaration.name

C5_FirstExportKept ==
    pc = "traverse" =>
        /\ \A i \in DOMAIN input :
              body[i] = IF i < cursor /\ IsLaterMerge(i)
                        THEN [type |-> "Declaration", declaration |-> input[i].declaration]
                        ELSE input[i]
        /\ export_name_set =
              {input[i].declaration.name : i \in {j \in 1..(cursor - 1) : IsMergeable(input[j])}}

\* `export enum a {}` then `export namespace a {}`: the second loses `export`.
C5_Witness ==
    /\ pc = "traverse"
    /\ cursor = 3
    /\ IsMergeable(input[1])
    /\ IsMergeable(input[2])
    /\ input[1].declaration.type = "TSEnumDeclaration"
    /\ input[2].declaration.type = "TSModuleDeclaration"
    /\ body[1] = input[1]
    /\ body[2].type = "Declaration"
    /\ export_name_set = {"a"}

(***************************************************************************)
(* ECMAScript's evaluation of a lowered enum: the arrow function of        *)
(* `var E = ((E) => { ... })(E || {})` called on a fresh object.  The      *)
(* object's properties are a function from property keys (strings) to      *)
(* values.                                                                 *)
(***************************************************************************)
Undefined == [t |-> "undefined"]

NotANumber == [t |-> "nan"]

ObjectRef == [t |-> "object"]

Throw(error) == [t |-> "throw", error |-> error]

Digits == <<"0", "1", "2", "3", "4", "5", "6", "7", "8", "9">>

RECURSIVE NumberToString(_)
NumberToString(n) ==
    IF n < 10 THEN Digits[n + 1]
    ELSE NumberToString(n \div 10) \o Digits[(n % 10) + 1]

StringOf(v) ==
    CASE v.t = "number" -> NumberToString(v.n)
      [] v.t = "string" -> v.s
      [] v.t = "undefined" -> "undefined"
      [] v.t = "nan" -> "NaN"
      [] OTHER -> "[object Object]"

ToPropertyKey(v) == StringOf(v)

\* The + operator.
Add(l, r) ==
    CASE l.t = "number" /\ r.t = "number" -> Number(l.n + r.n)
      [] l.t \in {"string", "object"} \/ r.t \in {"string", "object"} ->
            String(StringOf(l) \o StringOf(r))
      [] OTHER -> NotANumber

Outcome(v, obj) == [v |-> v, obj |-> obj]

\* scope: the initialized const bindings of the body and the parameter, which
\* is bound to the object.
RECURSIVE Evaluate(_, _, _)
Evaluate(e, scope, obj) ==
    CASE e.type = "NumberLiteral" -> Outcome(Number(e.number), obj)
      [] e.type = "StringLiteral" -> Outcome(String(e.string), obj)
      [] e.type = "IdentifierReference" ->
            IF e.name \in DOMAIN scope.consts THEN Outcome(scope.consts[e.name], obj)
            ELSE IF e.name = scope.param THEN Outcome(ObjectRef, obj)
            ELSE Outcome(Throw("ReferenceError"), obj)
      [] e.type = "BinaryExpression" ->
            LET l == Evaluate(e.left, scope, obj)
            IN  IF l.v.t = "throw" THEN l
                ELSE LET r == Evaluate(e.right, scope, l.obj)
                     IN  IF r.v.t = "throw" THEN r
                         ELSE Outcome(Add(l.v, r.v), r.obj)
      [] e.type = "ComputedMemberExpression" ->
            LET o == Evaluate(e.object, scope, obj)
            IN  IF o.v.t = "throw" THEN o
                ELSE LET k == Evaluate(e.expression, scope, o.obj)
                     IN  IF k.v.t = "throw" THEN k
                         ELSE IF o.v.t = "undefined"
                         THEN Outcome(Throw("TypeError"), k.obj)
                         ELSE IF o.v.t = "object" /\ ToPropertyKey(k.v) \in DOMAIN k.obj
                         THEN Outcome(k.obj[ToPropertyKey(k.v)], k.obj)
                         ELSE Outcome(Undefined, k.obj)
      [] e.type = "AssignmentExpression" ->
            LET o == Evaluate(e.left.object, scope, obj)
            IN  IF o.v.t = "throw" THEN o
                ELSE LET k == Evaluate(e.left.expression, scope, o.obj)
                     IN  IF k.v.t = "throw" THEN k
                         ELSE LET r == Evaluate(e.right, scope, k.obj)
                              IN  IF r.v.t = "throw" THEN r
                                  ELSE IF o.v.t # "object"
                                  THEN Outcome(Throw("TypeError"), r.obj)
                                  ELSE Outcome(r.v, (ToPropertyKey(k.v) :> r.v) @@ r.obj)

Completion(status, value, obj) == [status |-> status, value |-> value, obj |-> obj]

RECURSIVE Run(_, _, _)
Run(stmts, scope, obj) ==
    IF stmts = <<>> THEN Completion("normal", Undefined, obj)
    ELSE LET stmt == Head(stmts)
             e    == CASE stmt.type = "VariableDeclaration" -> stmt.declarations[1].init
                       [] stmt.type = "ExpressionStatement" -> stmt.expression
                       [] stmt.type = "ReturnStatement" -> stmt.argument
             r    == Evaluate(e, scope, obj)
         IN  IF r.v.t = "throw" THEN Completion(r.v.error, Undefined, r.obj)
             ELSE CASE stmt.type = "VariableDeclaration" ->
                        Run(Tail(stmts),
                            [scope EXCEPT !.consts = (stmt.declarations[1].id :> r.v) @@ @],
                            r.obj)
                    [] stmt.type = "ExpressionStatement" -> Run(Tail(stmts), scope, r.obj)
                    [] stmt.type = "ReturnStatement" -> Completion("return", r.v, r.obj)

\* The names the body declares with const, in order.
LexicallyDeclaredNames(stmts) ==
    LET consts == SelectSeq(stmts, LAMBDA st : st.type = "VariableDeclaration")
    IN  [i \in DOMAIN consts |-> consts[i].declarations[1].id]

\* Early errors of a function: a lexically declared name occurs twice or is
\* also a parameter.
HasEarlyError(params, stmts) ==
    LET names == LexicallyDeclaredNames(stmts)
    IN  \/ \E i \in DOMAIN names : names[i] \in Range(params)
        \/ \E i, j \in DOMAIN names : i # j /\ names[i] = names[j]

\* The completion of the call in `var E = ((E) => { ... })(E || {})` when E
\* is not yet defined, so that the argument is a fresh object.
CallEnum(lowered) ==
    LET callee == lowered.declarations[1].init.callee
    IN  IF HasEarlyError(callee.params, callee.statements)
        THEN Completion("SyntaxError", Undefined, <<>>)
        ELSE Run(callee.statements, [consts |-> <<>>, param |-> callee.params[1]], <<>>)

(***************************************************************************)
(* Vocabulary of the properties of enum lowering.                          *)
(***************************************************************************)
LoweredEnum ==
    /\ pc = "lowered"
    /\ decl_in.type = "TSEnumDeclaration"
    /\ ~decl_in.declare

\* The statements of the lowered body.
Lowered == decl.declarations[1].init.callee.statements

\* The i-th member's assignment statement: every member emits exactly one
\* expression statement.
MemberStatement(i) ==
    SelectSeq(Lowered, LAMBDA st : st.type = "ExpressionStatement")[i]

\* E["name"] = value
IsForward(e, name) ==
    /\ e.type = "AssignmentExpression"
    /\ e.left = [type |-> "ComputedMemberExpression",
                 object |-> [type |-> "IdentifierReference", name |-> EnumName],
                 expression |-> [type |-> "StringLiteral", string |-> name]]

\* E[E["name"] = value] = "name"
IsBidirectional(e, name) ==
    /\ e.type = "AssignmentExpression"
    /\ e.left.type = "ComputedMemberExpression"
    /\ e.left.object = [type |-> "IdentifierReference", name |-> EnumName]
    /\ IsForward(e.left.expression, name)
    /\ e.right = [type |-> "StringLiteral", string |-> name]

HasProperty(obj, key, value) == key \in DOMAIN obj /\ obj[key] = value

(***************************************************************************)
(* C6.  For a non-ambient enum whose members have no initializers (names   *)
(* pairwise distinct, identifiers or string-literal keys), evaluating the  *)
(* lowered body on an empty object returns that object with, for the i-th  *)
(* member (0-based) named n, E[n] = i and E[i] = n.                        *)
(***************************************************************************)
C6_DefaultMembersBidirectional ==
    (LoweredEnum /\ \A i \in DOMAIN decl_in.members :
                        decl_in.members[i].initializer = NoExpression) =>
        LET done == CallEnum(decl)
        IN  /\ done.status = "return"
            /\ done.value = ObjectRef
            /\ \A i \in DOMAIN decl_in.members :
                  /\ HasProperty(done.obj, decl_in.members[i].name, Number(i - 1))
                  /\ HasProperty(done.obj, NumberToString(i - 1),
                                 String(decl_in.members[i].name))

(***************************************************************************)
(* C7.  String-valued members get only the forward map: a member whose     *)
(* value is a string is lowered to E[name] = value, with no reverse entry; *)
(* the nested form E[E[name] = value] = name is emitted only for members   *)
(* whose value is not a string.                                            *)
(***************************************************************************)
C7_Original ==
    LoweredEnum =>
        \A i \in DOMAIN decl_in.members :
            MemberValues(decl_in.members, Len(decl_in.members))[i].t = "string" =>
                /\ IsForward(MemberStatement(i).expression, decl_in.members[i].name)
                /\ ~IsBidirectional(MemberStatement(i).expression, decl_in.members[i].name)

\* As amended: what decides is the form of the initializer.  A member whose
\* initializer is a string literal is lowered to E[name] = value; every other
\* member, also one whose initializer evaluates to a string without being a
\* string literal, is lowered to the nested form.
C7_ForwardOnlyIffStringLiteral ==
    LoweredEnum =>
        \A i \in DOMAIN decl_in.members :
            IF decl_in.members[i].initializer.type = "StringLiteral"
            THEN /\ IsForward(MemberStatement(i).expression, decl_in.members[i].name)
                 /\ ~IsBidirectional(MemberStatement(i).expression, decl_in.members[i].name)
            ELSE IsBidirectional(MemberStatement(i).expression, decl_in.members[i].name)

\* enum E { A = "x", B = A }
C7_Witness ==
    /\ LoweredEnum
    /\ Len(decl_in.members) = 2
    /\ decl_in.members[1].initializer = [type |-> "StringLiteral", string |-> "x"]
    /\ decl_in.members[2].initializer.type = "IdentifierReference"
    /\ IsForward(MemberStatement(1).expression, decl_in.members[1].name)
    /\ IsBidirectional(MemberStatement(2).expression, decl_in.members[2].name)

(***************************************************************************)
(* C8.  Every member with an identifier-valid name is bound by a           *)
(* `const name = value` right before its assignment statement, so that a   *)
(* later initializer that mentions an earlier member by bare name          *)
(* evaluates to that member's value, and the parameter E remains the       *)
(* object the assignments write to: the body returns that object holding   *)
(* every member's value.                                                   *)
(***************************************************************************)
C8_ConstBindingsPreserveValues ==
    LoweredEnum =>
        LET done   == CallEnum(decl)
            values == MemberValues(decl_in.members, Len(decl_in.members))
        IN  /\ \A i \in DOMAIN decl_in.members :
                  decl_in.members[i].name \in IdentifierNames =>
                      \E k \in DOMAIN Lowered :
                          /\ Lowered[k].type = "VariableDeclaration"
                          /\ Lowered[k].kind = "const"
                          /\ Lowered[k].declarations[1].id = decl_in.members[i].name
                          /\ Lowered[k + 1] = MemberStatement(i)
            /\ done.status = "return"
            /\ done.value = ObjectRef
            /\ \A i \in DOMAIN decl_in.members :
                  HasProperty(done.obj, decl_in.members[i].name, values[i])

(***************************************************************************)
(* C9.  An ambient enum (`declare`) handed to transform_declaration        *)
(* produces no runtime code and is removed: afterwards the tree no longer  *)
(* holds the enum declaration.                                             *)
(***************************************************************************)
AmbientEnum ==
    /\ pc = "lowered"
    /\ decl_in.type = "TSEnumDeclaration"
    /\ decl_in.declare

IsStaticChain(e) == e.type \in {"IdentifierReference", "StaticMemberExpression"}

\* The names of a chain of static member accesses, left to right.
RECURSIVE ChainNames(_)
ChainNames(e) ==
    IF e.type = "IdentifierReference" THEN <<e.name>>
    ELSE IF e.type = "StaticMemberExpression" /\ IsStaticChain(e.object)
    THEN Append(ChainNames(e.object), e.property)
    ELSE <<>>

C10_ImportEqualsLowered ==
    (pc = "lowered" /\ decl_in.type = "TSImportEqualsDeclaration") =>
        IF decl_in.import_kind = "value"
        THEN /\ decl.type = "VariableDeclaration"
             /\ decl.kind = "var"
             /\ Len(decl.declarations) = 1
             /\ decl.declarations[1].id = decl_in.name
             /\ decl_in.module_reference.type = "ExternalModuleReference" =>
                   decl.declarations[1].init =
                       [type |-> "CallExpression",
                        callee |-> [type |-> "IdentifierReference", name |-> "require"],
                        arguments |-> <<[type |-> "StringLiteral",
                                         string |-> decl_in.module_reference.expression]>>]
             /\ \A names \in QualifiedNames :
                   decl_in.module_reference = TypeName(names) =>
                       ChainNames(decl.declarations[1].init) = names
        ELSE decl = decl_in

\* import B = A.C.D
C10_Witness ==
    /\ pc = "lowered"
    /\ decl_in.type = "TSImportEqualsDeclaration"
    /\ decl_in.import_kind = "value"
    /\ decl_in.module_reference = TypeName(<<"A", "C", "D">>)
    /\ decl.declarations[1].init.type = "StaticMemberExpression"
    /\ decl.declarations[1].init.property = "D"
    /\ decl.declarations[1].init.object.property = "C"
    /\ decl.declarations[1].init.object.object.name = "A"

(***************************************************************************)
(* Vocabulary of the properties of a whole file run: what the file         *)
(* imported and exported as parsed, and what the output still exports.     *)
(***************************************************************************)
\* The name is bound by an `import type` declaration or by an inline `type`
\* specifier of the file.
TypeOnlyImported(n) ==
    \E i \in DOMAIN input :
        /\ input[i].type = "ImportDeclaration"
        /\ \E k \in DOMAIN input[i].specifiers :
              /\ input[i].specifiers[k].local = n
              /\ \/ input[i].import_kind = "type"
                 \/ input[i].specifiers[k].import_kind = "type"

\* The export specifiers of the output whose local name is n, as pairs of
\* statement index and specifier index.
ExportSpecifiersOf(n) ==
    {p \in (DOMAIN body) \X (1..2) :
        /\ body[p[1]].type = "ExportNamedDeclaration"
        /\ p[2] \in DOMAIN body[p[1]].specifiers
        /\ body[p[1]].specifiers[p[2]].local = n}

(***************************************************************************)
(* C11.  A type-only binding does not appear in the output of              *)
(* transform_program: for every name imported type-only (`import type` or  *)
(* an inline `type` specifier) that is the import binding alone, no export *)
(* specifier referring to it is left in the output, whether the            *)
(* export-named statement precedes or follows the import and whether or    *)
(* not the specifier renames the binding (`export { T as U }`).            *)
(***************************************************************************)
C11_TypeOnlyBindingNotExported ==
    pc = "done" =>
        \A n \in Names :
            (TypeOnlyImported(n) /\ ImportBindingOnly(n)) => ExportSpecifiersOf(n) = {}

\* The input holds a value-kind, source-less export of an enum or an
\* identifier-named namespace n that is not ambient.
HasRuntimeExport(n) ==
    \E i \in DOMAIN input :
        /\ IsMergeable(input[i])
        /\ ~input[i].declaration.declare
        /\ input[i].declaration.name = n

\* The statements of the output that export a declaration of the enum or
\* namespace n.
ExportedDeclarationsOf(n) ==
    {i \in DOMAIN body :
        /\ body[i].type = "ExportNamedDeclaration"
        /\ body[i].declaration.type \in {"TSEnumDeclaration", "TSModuleDeclaration"}
        /\ body[i].declaration.id_kind = "Identifier"
        /\ body[i].declaration.name = n}

(***************************************************************************)
(* C12.  With verbatim-module-syntax disabled, for any file and any name   *)
(* N: if the input holds at least one value-kind exported enum or          *)
(* namespace declaration named N that is not ambient, then after           *)
(* transform_statement has run over every statement in order and           *)
(* transform_program has run once, the output holds exactly one exported   *)
(* declaration of N.                                                       *)
(***************************************************************************)
C12_RuntimeExportSurvives ==
    (pc = "done" /\ ~verbatim_module_syntax) =>
        \A n \in Names :
            HasRuntimeExport(n) => Cardinality(ExportedDeclarationsOf(n)) = 1
====
